---- MODULE Spec2Model ----
(***************************************************************************)
(* Oak (SpcFORK/oak): the recursive-descent parser of src/parse.go as a    *)
(* step machine over an explicit call stack, and the REPL of src/main.go   *)
(* that feeds token sequences to it.                                        *)
(*                                                                          *)
(* Strings are sequences of one-character strings (<<"x">>), so that       *)
(* number payloads are parsed digit by digit and string values are byte     *)
(* sequences.  Go slices are 0-indexed: At(i) is tokens[i].                 *)
(***************************************************************************)
EXTENDS Integers, Sequences, FiniteSets, TLC

VARIABLES
    tokens,   \* parser.tokens
    index,    \* parser.index
    stack,    \* the Go call stack of the parser: frames, innermost last
    ret,      \* the (astNode, error) pair the last returning call handed back
    status,   \* "idle" | "parsing" | "ok" | "error" | "panic"
    forest,   \* the []astNode parse() returned
    perr,     \* the error parse() returned ("" is nil), or the panic message
    repl,     \* runRepl's position: "off" | "read" | "eval" | "exited"
    ctx,      \* the Context: scopes and heap
    out,      \* what the REPL printed last
    nlines    \* lines read by the REPL so far

vars == <<tokens, index, stack, ret, status, forest, perr, repl, ctx, out, nlines>>

parserVars == <<tokens, index, stack, ret, status, forest, perr>>

----------------------------------------------------------------------------
(* Bounds *)

MaxLen == 3

MaxLines == 2

----------------------------------------------------------------------------
(* Tokens *)

Tok(k, p) == [kind |-> k, payload |-> p]

T(k) == Tok(k, <<>>)

Ident(c) == Tok("identifier", <<c>>)

Num(c) == Tok("numberLiteral", <<c>>)

Str(c) == Tok("stringLiteral", <<c>>)

----------------------------------------------------------------------------
(* AST nodes (src/parse.go:13-218) *)

NoNode == [type |-> "none"]

emptyNode == [type |-> "empty"]

nullNode == [type |-> "null"]

stringNode(p) == [type |-> "string", payload |-> p]

numberNode(isInt, i, f) ==
    [type |-> "number", isInteger |-> isInt, intPayload |-> i, floatPayload |-> f]

booleanNode(b) == [type |-> "boolean", bool |-> b]

atomNode(p) == [type |-> "atom", payload |-> p]

listNode(elems) == [type |-> "list", elems |-> elems]

objectEntryNode(k, v) == [key |-> k, val |-> v]

objectNode(entries) == [type |-> "object", entries |-> entries]

fnNode(name, args, restArg, body) ==
    [type |-> "fn", name |-> name, args |-> args, restArg |-> restArg, body |-> body]

identifierNode(p) == [type |-> "identifier", payload |-> p]

assignmentNode(isLocal, left, right) ==
    [type |-> "assignment", isLocal |-> isLocal, left |-> left, right |-> right]

propertyAccessNode(left, right) ==
    [type |-> "propertyAccess", left |-> left, right |-> right]

unaryNode(op, right) == [type |-> "unary", op |-> op, right |-> right]

binaryNode(op, left, right) ==
    [type |-> "binary", op |-> op, left |-> left, right |-> right]

fnCallNode(fn, args) == [type |-> "fnCall", fn |-> fn, args |-> args]

blockNode(exprs) == [type |-> "block", exprs |-> exprs]

----------------------------------------------------------------------------
(* Number payloads: strconv.ParseInt / strconv.ParseFloat on digit strings *)

Digit(c) ==
    CASE c = "0" -> 0 [] c = "1" -> 1 [] c = "2" -> 2 [] c = "3" -> 3
      [] c = "4" -> 4 [] c = "5" -> 5 [] c = "6" -> 6 [] c = "7" -> 7
      [] c = "8" -> 8 [] c = "9" -> 9

RECURSIVE ParseDigits(_, _)
ParseDigits(s, acc) ==
    IF s = <<>> THEN acc ELSE ParseDigits(Tail(s), acc * 10 + Digit(Head(s)))

ContainsDot(s) == \E i \in 1..Len(s) : s[i] = "."

DotAt(s) == CHOOSE i \in 1..Len(s) : s[i] = "."

\* a float is kept exactly: all its digits as an integer, and how many of
\* them follow the point
ParseFloat(s) ==
    LET d == DotAt(s)
        digits == SubSeq(s, 1, d - 1) \o SubSeq(s, d + 1, Len(s))
    IN  [digits |-> ParseDigits(digits, 0), scale |-> Len(s) - d]

NoFloat == [digits |-> 0, scale |-> 0]

numberOf(payload) ==
    IF ContainsDot(payload)
    THEN numberNode(FALSE, 0, ParseFloat(payload))
    ELSE numberNode(TRUE, ParseDigits(payload, 0), NoFloat)

----------------------------------------------------------------------------
(* The parser's token cursor (src/parse.go:220-282) *)

isEOF == index = Len(tokens)

At(i) == tokens[i + 1]

\* peek() and next() index the slice unchecked: at the end they panic
InRange(i) == i >= 0 /\ i < Len(tokens)

peekKind == At(index).kind

\* peekAhead(n): the guard is index+n > len, so index+n = len still indexes
peekAheadGuard(n) == index + n > Len(tokens)

\* expect(kind): "eof" (error returned), "panic" (wrong kind), "ok"
expectMismatch(got, want) == got # want

expect(kind) ==
    IF isEOF THEN "eof"
    ELSE IF expectMismatch(peekKind, kind) THEN "panic"
    ELSE "ok"

EofError == "Unexpected end of input"

----------------------------------------------------------------------------
(* Frames and effects *)

Frame(fn, pc) ==
    [fn |-> fn, pc |-> pc, node |-> NoNode, key |-> NoNode, items |-> <<>>,
     name |-> <<>>, args |-> <<>>, restArg |-> <<>>, isLocal |-> FALSE,
     op |-> "unknown", start |-> 0]

Top == stack[Len(stack)]

\* what one step of a function does: continue at a frame, call a function
\* and continue at a frame when it returns, return, or panic; adv is the
\* number of tokens the step consumed
Goto(f, adv) == [op |-> "goto", frame |-> f, adv |-> adv]

Call(f, callee, adv) == [op |-> "call", frame |-> f, callee |-> callee, adv |-> adv]

\* return p.callee(...): the callee's result is the caller's
TailCall(callee, adv) == [op |-> "tail", callee |-> callee, adv |-> adv]

Return(n, e, adv) == [op |-> "return", node |-> n, err |-> e, adv |-> adv]

Panic(why, adv) == [op |-> "panic", why |-> why, adv |-> adv]

IndexPanic == Panic("index out of range", 0)

ExpectPanic == Panic("expected token", 1)

NoRet == [node |-> NoNode, err |-> "", fn |-> "none", start |-> 0]

Failed == ret.err # ""

\* if err != nil { return nil, err }
Propagate == Return(NoNode, ret.err, 0)

----------------------------------------------------------------------------
(* The comma-separated loops of list, block, parenthesised block and call
   arguments:  for !p.isEOF() && p.peek().kind != closer { nextNode, expect(comma) } *)

InLoop(closer) == ~isEOF /\ peekKind # closer

\* after a loop element's nextNode returned: expect(comma), append
AfterItem(f, loopPc) ==
    IF Failed THEN Propagate
    ELSE CASE expect("comma") = "eof" -> Return(NoNode, EofError, 0)
           [] expect("comma") = "panic" -> ExpectPanic
           [] OTHER -> Goto([f EXCEPT !.items = Append(@, ret.node), !.pc = loopPc], 1)

\* the loop head: one more element, or expect(closer) and go on with `done`
LoopHead(f, closer, afterPc, done) ==
    IF InLoop(closer) THEN Call([f EXCEPT !.pc = afterPc], "nextNode", 0)
    ELSE CASE expect(closer) = "eof" -> Return(NoNode, EofError, 0)
           [] expect(closer) = "panic" -> ExpectPanic
           [] OTHER -> done

----------------------------------------------------------------------------
(* parseMaybeAssignment (src/parse.go:303-321); f.node is `left` *)

IsAssignKind(k) == k = "assign" \/ k = "nonlocalAssign"

\* variants of isLocalOf with the comparison wrong
isLocalOfNever(k) == FALSE

isLocalOfAlways(k) == TRUE

isLocalOfSwapped(k) == k # "assign"

\* isLocal: p.next().kind == assign
isLocalOf(k) == k = "assign"

parseMaybeAssignment(f) ==
    CASE f.pc = "start" ->
            IF ~InRange(index) THEN IndexPanic
            ELSE IF ~IsAssignKind(peekKind) THEN Return(f.node, "", 0)
            ELSE Call([f EXCEPT !.isLocal = isLocalOf(peekKind), !.pc = "afterRight"],
                      "nextNode", 1)
      [] f.pc = "afterRight" ->
            IF Failed THEN Propagate
            ELSE Return(assignmentNode(f.isLocal, f.node, ret.node), "", 0)

MaybeAssignment(f, left, adv) ==
    TailCall([Frame("parseMaybeAssignment", "start") EXCEPT
                  !.node = left, !.start = f.start], adv)

----------------------------------------------------------------------------
(* parseAtom (src/parse.go:323-564) *)

\* a variant of IsObjectStart that never chooses the object
IsObjectStartNever(k) == FALSE

\* case leftBrace, after the first inner expression: a colon makes it an object
IsObjectStart(k) == k = "colon"

\* a variant of atomOfToken in which _ is an ordinary name
atomOfTokenNamesUnderscore(tok) ==
    CASE tok.kind = "qmark" -> nullNode
      [] tok.kind = "stringLiteral" -> stringNode(tok.payload)
      [] tok.kind = "numberLiteral" -> numberOf(tok.payload)
      [] tok.kind = "trueLiteral" -> booleanNode(TRUE)
      [] tok.kind = "falseLiteral" -> booleanNode(FALSE)
      [] tok.kind = "underscore" -> identifierNode(<<"_">>)
      [] OTHER -> booleanNode(FALSE)

\* the kinds whose case returns a literal node at once
atomOfToken(tok) ==
    CASE tok.kind = "qmark" -> nullNode
      [] tok.kind = "stringLiteral" -> stringNode(tok.payload)
      [] tok.kind = "numberLiteral" -> numberOf(tok.payload)
      [] tok.kind = "trueLiteral" -> booleanNode(TRUE)
      [] tok.kind = "falseLiteral" -> booleanNode(FALSE)
      [] tok.kind = "underscore" -> emptyNode
      \* ifKeyword and withKeyword have empty cases (TODO) and every other
      \* kind has none: all fall out of the switch
      [] OTHER -> booleanNode(FALSE)

parseAtomStart(f) ==
    IF ~InRange(index) THEN IndexPanic      \* tok := p.next()
    ELSE
    LET tok == At(index)
        i == index + 1                      \* the cursor after next()
    IN
    CASE tok.kind = "colon" ->
            IF ~InRange(i) THEN Panic("index out of range", 1)
            ELSE IF At(i).kind = "identifier"
            THEN Return(atomNode(At(i).payload), "", 2)
            ELSE Return(NoNode, "Expected identifier after ':'", 1)
      [] tok.kind = "leftBracket" -> Goto([f EXCEPT !.pc = "listLoop"], 1)
      [] tok.kind = "leftBrace" ->
            IF ~InRange(i) THEN Panic("index out of range", 1)
            ELSE IF At(i).kind = "rightBrace"
            THEN Return(objectNode(<<>>), "", 2)
            ELSE Call([f EXCEPT !.pc = "braceFirst"], "nextNode", 1)
      [] tok.kind = "fnKeyword" ->
            IF ~InRange(i) THEN Panic("index out of range", 1)
            ELSE IF At(i).kind = "identifier"
            THEN Goto([f EXCEPT !.name = At(i).payload, !.pc = "fnParen"], 2)
            ELSE Goto([f EXCEPT !.pc = "fnParen"], 1)
      [] tok.kind = "identifier" ->
            MaybeAssignment(f, identifierNode(tok.payload), 1)
      [] tok.kind \in {"minus", "exclam"} ->
            Call([f EXCEPT !.op = tok.kind, !.pc = "afterUnary"], "nextNode", 1)
      [] tok.kind = "leftParen" -> Goto([f EXCEPT !.pc = "parenLoop"], 1)
      [] OTHER -> Return(atomOfToken(tok), "", 1)

\* the argument list of fn: one formal per step
parseFnArgs(f) ==
    IF InLoop("rightParen")
    THEN IF expect("identifier") = "panic" THEN ExpectPanic
         ELSE LET arg == At(index).payload
                  j == index + 1
              IN  IF ~InRange(j) THEN Panic("index out of range", 1)
                  ELSE IF At(j).kind = "ellipsis"
                  THEN \* restArg, then expect(comma) and break
                       IF j + 1 = Len(tokens) THEN Return(NoNode, EofError, 2)
                       ELSE IF expectMismatch(At(j + 1).kind, "comma")
                       THEN Panic("expected token", 3)
                       ELSE Goto([f EXCEPT !.restArg = arg, !.pc = "fnArgsClose"], 3)
                  ELSE IF expectMismatch(At(j).kind, "comma")
                       THEN Panic("expected token", 2)
                       ELSE Goto([f EXCEPT !.args = Append(@, arg)], 2)
    ELSE CASE expect("rightParen") = "eof" -> Return(NoNode, EofError, 0)
           [] expect("rightParen") = "panic" -> ExpectPanic
           [] OTHER -> Goto([f EXCEPT !.pc = "fnBody"], 1)

\* fn {} is a function with an empty block as its body
parseFnBody(f) ==
    IF ~InRange(index) THEN IndexPanic
    ELSE IF peekKind # "leftBrace"
    THEN Call([f EXCEPT !.pc = "afterFnBody"], "nextNode", 0)
    ELSE IF peekAheadGuard(1)
    THEN Call([f EXCEPT !.pc = "afterFnBody"], "nextNode", 0)
    ELSE IF ~InRange(index + 1) THEN IndexPanic
    ELSE IF At(index + 1).kind = "rightBrace"
    THEN Return(fnNode(f.name, f.args, f.restArg, blockNode(<<>>)), "", 2)
    ELSE Call([f EXCEPT !.pc = "afterFnBody"], "nextNode", 0)

parseBrace(f) ==
    CASE f.pc = "braceFirst" ->
            IF Failed THEN Propagate
            ELSE IF isEOF
            THEN Return(NoNode, "Unexpected end of input inside block or object", 0)
            ELSE IF IsObjectStart(peekKind)
            THEN Call([f EXCEPT !.key = ret.node, !.pc = "objFirstVal"], "nextNode", 1)
            ELSE CASE expect("comma") = "panic" -> ExpectPanic
                   [] OTHER -> Goto([f EXCEPT !.items = <<ret.node>>,
                                              !.pc = "blockLoop"], 1)
      [] f.pc \in {"objFirstVal", "objAfterVal"} ->
            IF Failed THEN Propagate
            ELSE CASE expect("comma") = "eof" -> Return(NoNode, EofError, 0)
                   [] expect("comma") = "panic" -> ExpectPanic
                   [] OTHER ->
                        Goto([f EXCEPT
                                 !.items = Append(@, objectEntryNode(f.key, ret.node)),
                                 !.pc = "objLoop"], 1)
      [] f.pc = "objLoop" ->
            LoopHead(f, "rightBrace", "objAfterKey",
                     MaybeAssignment(f, objectNode(f.items), 1))
      [] f.pc = "objAfterKey" ->
            IF Failed THEN Propagate
            ELSE CASE expect("colon") = "eof" -> Return(NoNode, EofError, 0)
                   [] expect("colon") = "panic" -> ExpectPanic
                   [] OTHER -> Call([f EXCEPT !.key = ret.node, !.pc = "objAfterVal"],
                                    "nextNode", 1)
      [] f.pc = "blockLoop" ->
            LoopHead(f, "rightBrace", "blockAfterExpr",
                     Return(blockNode(f.items), "", 1))
      [] f.pc = "blockAfterExpr" -> AfterItem(f, "blockLoop")

parseAtom(f) ==
    CASE f.pc = "start" -> parseAtomStart(f)
      [] f.pc = "listLoop" ->
            LoopHead(f, "rightBracket", "listAfterItem",
                     MaybeAssignment(f, listNode(f.items), 1))
      [] f.pc = "listAfterItem" -> AfterItem(f, "listLoop")
      [] f.pc = "fnParen" ->
            IF ~InRange(index) THEN IndexPanic
            ELSE IF peekKind = "leftParen" THEN Goto([f EXCEPT !.pc = "fnArgs"], 1)
            ELSE Goto([f EXCEPT !.pc = "fnBody"], 0)
      [] f.pc = "fnArgs" -> parseFnArgs(f)
      [] f.pc = "fnArgsClose" ->
            CASE expect("rightParen") = "eof" -> Return(NoNode, EofError, 0)
              [] expect("rightParen") = "panic" -> ExpectPanic
              [] OTHER -> Goto([f EXCEPT !.pc = "fnBody"], 1)
      [] f.pc = "fnBody" -> parseFnBody(f)
      [] f.pc = "afterFnBody" ->
            IF Failed THEN Propagate
            ELSE Return(fnNode(f.name, f.args, f.restArg, ret.node), "", 0)
      [] f.pc = "afterUnary" ->
            IF Failed THEN Propagate
            ELSE Return(unaryNode(f.op, ret.node), "", 0)
      [] f.pc = "parenLoop" ->
            LoopHead(f, "rightParen", "parenAfterExpr",
                     Return(blockNode(f.items), "", 1))
      [] f.pc = "parenAfterExpr" -> AfterItem(f, "parenLoop")
      [] OTHER -> parseBrace(f)

----------------------------------------------------------------------------
(* nextNode (src/parse.go:566-623) *)

BinaryKinds ==
    {"plus", "minus", "times", "divide", "modulus",
     "greater", "less", "eq", "geq", "leq"}

RightDelimiters == {"rightParen", "rightBracket", "rightBrace"}

\* one iteration of  for !p.isEOF() && p.peek().kind != comma { switch ... }
nextNodeLoop(f) ==
    IF isEOF \/ peekKind = "comma" THEN Return(f.node, "", 0)
    ELSE CASE peekKind = "dot" -> Call([f EXCEPT !.pc = "afterDot"], "parseAtom", 1)
           [] peekKind = "leftParen" -> Goto([f EXCEPT !.pc = "argsLoop"], 1)
           \* TODO: binaryNode -- the case is empty, the loop goes round
           [] peekKind \in BinaryKinds -> Goto(f, 0)
           [] peekKind = "colon" -> Return(f.node, "", 0)
           [] peekKind \in RightDelimiters -> Return(f.node, "", 0)
           \* TODO: infix call -- the default case is empty too
           [] OTHER -> Goto(f, 0)

nextNode(f) ==
    CASE f.pc = "start" -> Call([f EXCEPT !.pc = "afterAtom"], "parseAtom", 0)
      [] f.pc = "afterAtom" ->
            IF Failed THEN Propagate
            ELSE Goto([f EXCEPT !.node = ret.node, !.pc = "loop"], 0)
      [] f.pc = "loop" -> nextNodeLoop(f)
      [] f.pc = "afterDot" ->
            IF Failed THEN Propagate
            ELSE Goto([f EXCEPT !.node = propertyAccessNode(f.node, ret.node),
                                !.pc = "loop"], 0)
      [] f.pc = "argsLoop" ->
            LoopHead(f, "rightParen", "afterArg",
                     Goto([f EXCEPT !.node = fnCallNode(f.node, f.items),
                                    !.items = <<>>, !.pc = "loop"], 1))
      [] f.pc = "afterArg" -> AfterItem(f, "argsLoop")

----------------------------------------------------------------------------
(* parse (src/parse.go:625-642); f.items is `nodes` *)

parse(f) ==
    CASE f.pc = "loop" ->
            IF isEOF THEN Return(f.items, "", 0)
            ELSE Call([f EXCEPT !.pc = "afterNode"], "nextNode", 0)
      [] f.pc = "afterNode" ->
            IF Failed THEN Return(f.items, ret.err, 0)
            ELSE CASE expect("comma") = "eof" -> Return(f.items, EofError, 0)
                   [] expect("comma") = "panic" -> ExpectPanic
                   [] OTHER -> Goto([f EXCEPT !.items = Append(@, ret.node),
                                              !.pc = "loop"], 1)

----------------------------------------------------------------------------
(* Running the parser: one step of the innermost call *)

ReplaceTop(f) == [stack EXCEPT ![Len(stack)] = f]

Pop == SubSeq(stack, 1, Len(stack) - 1)

Apply(eff) ==
    /\ index' = index + eff.adv
    /\ tokens' = tokens
    /\ CASE eff.op = "goto" ->
              /\ stack' = ReplaceTop(eff.frame)
              /\ ret' = NoRet
              /\ UNCHANGED <<status, forest, perr>>
         [] eff.op = "call" ->
              /\ stack' = Append(ReplaceTop(eff.frame),
                                 [Frame(eff.callee, "start") EXCEPT
                                      !.start = index + eff.adv])
              /\ ret' = NoRet
              /\ UNCHANGED <<status, forest, perr>>
         [] eff.op = "tail" ->
              /\ stack' = ReplaceTop(eff.callee)
              /\ ret' = NoRet
              /\ UNCHANGED <<status, forest, perr>>
         [] eff.op = "return" /\ Len(stack) > 1 ->
              /\ stack' = Pop
              /\ ret' = [node |-> eff.node, err |-> eff.err,
                         fn |-> Top.fn, start |-> Top.start]
              /\ UNCHANGED <<status, forest, perr>>
         [] eff.op = "return" /\ Len(stack) = 1 ->    \* parse() returns
              /\ stack' = <<>>
              /\ ret' = NoRet
              /\ forest' = eff.node
              /\ perr' = eff.err
              /\ status' = IF eff.err = "" THEN "ok" ELSE "error"
         [] eff.op = "panic" ->
              /\ status' = "panic"
              /\ perr' = eff.why
              /\ UNCHANGED <<stack, ret, forest>>

Running(fn) == status = "parsing" /\ stack # <<>> /\ Top.fn = fn

ParseStep ==
    /\ Running("parse")
    /\ Apply(parse(Top))
    /\ UNCHANGED <<repl, ctx, out, nlines>>

NextNodeStep ==
    /\ Running("nextNode")
    /\ Apply(nextNode(Top))
    /\ UNCHANGED <<repl, ctx, out, nlines>>

ParseAtomStep ==
    /\ Running("parseAtom")
    /\ Apply(parseAtom(Top))
    /\ UNCHANGED <<repl, ctx, out, nlines>>

ParseMaybeAssignmentStep ==
    /\ Running("parseMaybeAssignment")
    /\ Apply(parseMaybeAssignment(Top))
    /\ UNCHANGED <<repl, ctx, out, nlines>>

ParserNext ==
    \/ ParseStep
    \/ NextNodeStep
    \/ ParseAtomStep
    \/ ParseMaybeAssignmentStep

\* newParser(tokens) and the call of parse()
StartParser(toks) ==
    /\ tokens = toks
    /\ index = 0
    /\ stack = <<Frame("parse", "loop")>>
    /\ ret = NoRet
    /\ status = "parsing"
    /\ forest = <<>>
    /\ perr = ""

----------------------------------------------------------------------------
(* Runtime values and the Context.  Strings, lists and objects are heap
   cells named by address; every other value is held directly. *)

VNull == [t |-> "null"]

VEmpty == [t |-> "empty"]

VInt(i) == [t |-> "int", i |-> i]

VFloat(f) == [t |-> "float", f |-> f]

VBool(b) == [t |-> "bool", b |-> b]

VAtom(n) == [t |-> "atom", name |-> n]

VRef(a) == [t |-> "ref", addr |-> a]

VFn(node, scope) == [t |-> "fn", node |-> node, scope |-> scope]

StringCell(bytes) == [k |-> "string", bytes |-> bytes]

ListCell(elems) == [k |-> "list", elems |-> elems]

ObjectCell(fields) == [k |-> "object", fields |-> fields]

Root == 1

\* NewContext: a root scope with no parent and no bindings
NewContext == [scopes |-> <<[vars |-> <<>>, parent |-> 0]>>, heap |-> <<>>]

Bound(c, s, name) == name \in DOMAIN c.scopes[s].vars

Bind(vs, name, v) ==
    [n \in DOMAIN vs \cup {name} |-> IF n = name THEN v ELSE vs[n]]

\* scope.put: insert into this scope
PutLocal(c, s, name, v) ==
    [c EXCEPT !.scopes[s].vars = Bind(@, name, v)]

RECURSIVE NearestBinding(_, _, _)
\* the nearest scope on the parent chain of s that binds name; the root if none
NearestBinding(c, s, name) ==
    IF Bound(c, s, name) \/ c.scopes[s].parent = 0 THEN s
    ELSE NearestBinding(c, c.scopes[s].parent, name)

PutNonlocal(c, s, name, v) == PutLocal(c, NearestBinding(c, s, name), name, v)

IsBound(c, s, name) == Bound(c, NearestBinding(c, s, name), name)

Lookup(c, s, name) == c.scopes[NearestBinding(c, s, name)].vars[name]

NewScope(c, parent) ==
    [c EXCEPT !.scopes = Append(@, [vars |-> <<>>, parent |-> parent])]

Alloc(c, cell) == [c EXCEPT !.heap = Append(@, cell)]

IsCell(c, v, k) == v.t = "ref" /\ c.heap[v.addr].k = k

\* the result of evaluating: the context after, the value, the error ("" none)
Ok(c, v) == [c |-> c, v |-> v, err |-> ""]

Err(c, why) == [c |-> c, v |-> VNull, err |-> why]

----------------------------------------------------------------------------
(* Keys of objects are strings: numbers in decimal, atoms and bare
   identifiers by name *)

DigitChar(d) ==
    CASE d = 0 -> "0" [] d = 1 -> "1" [] d = 2 -> "2" [] d = 3 -> "3"
      [] d = 4 -> "4" [] d = 5 -> "5" [] d = 6 -> "6" [] d = 7 -> "7"
      [] d = 8 -> "8" [] d = 9 -> "9"

RECURSIVE FormatNat(_)
FormatNat(n) ==
    IF n < 10 THEN <<DigitChar(n)>>
    ELSE Append(FormatNat(n \div 10), DigitChar(n % 10))

FormatInt(i) == IF i < 0 THEN <<"-">> \o FormatNat(-i) ELSE FormatNat(i)

\* the key a value stands for; <<"?">> marks a value that is no key
KeyOfValue(c, v) ==
    CASE v.t = "int" -> FormatInt(v.i)
      [] v.t = "atom" -> v.name
      [] IsCell(c, v, "string") -> c.heap[v.addr].bytes
      [] OTHER -> <<"?">>

----------------------------------------------------------------------------
(* The evaluator.  Eval walks the tree recursively; its kinds of work --
   a node, a sequence of nodes, the entries of an object literal, a key, a
   property access, an assignment to a target -- are the jobs of the one
   recursive operator Run(job, s, c): job against scope s of context c. *)

JNode(n) == [j |-> "node", n |-> n]

JSeq(nodes, acc) == [j |-> "seq", nodes |-> nodes, acc |-> acc]

JKey(n) == [j |-> "key", n |-> n]

JEntries(entries, fields) == [j |-> "entries", entries |-> entries, fields |-> fields]

JAccess(n) == [j |-> "access", n |-> n]

JAssign(target, isLocal, v) ==
    [j |-> "assign", target |-> target, isLocal |-> isLocal, v |-> v]

JAssignList(targets, i, isLocal, v) ==
    [j |-> "assignList", targets |-> targets, i |-> i, isLocal |-> isLocal, v |-> v]

JAssignObject(entries, i, isLocal, v) ==
    [j |-> "assignObject", entries |-> entries, i |-> i, isLocal |-> isLocal, v |-> v]

\* position i (0-based) of the source of a destructuring, null when missing
ElemOrNull(c, v, i) ==
    IF IsCell(c, v, "list") /\ i < Len(c.heap[v.addr].elems)
    THEN c.heap[v.addr].elems[i + 1]
    ELSE VNull

FieldOrNull(c, v, k) ==
    IF IsCell(c, v, "object") /\ k \in DOMAIN c.heap[v.addr].fields
    THEN c.heap[v.addr].fields[k]
    ELSE VNull

Negate(v) ==
    CASE v.t = "int" -> VInt(-v.i)
      [] v.t = "float" -> VFloat([v.f EXCEPT !.digits = -@])
      [] OTHER -> VNull

\* bind the formals of fn to the actuals: missing actuals are null, the
\* rest argument takes the remaining ones as a list
BindFormals(c, s, fn, actuals) ==
    LET named == [n \in {fn.args[i] : i \in 1..Len(fn.args)} |->
                     LET i == CHOOSE j \in 1..Len(fn.args) :
                                 /\ fn.args[j] = n
                                 /\ \A m \in (j + 1)..Len(fn.args) : fn.args[m] # n
                     IN  IF i <= Len(actuals) THEN actuals[i] ELSE VNull]
        c1 == [c EXCEPT !.scopes[s].vars = named]
    IN  IF fn.restArg = <<>> THEN c1
        ELSE LET a == Len(c1.heap) + 1
                 rest == IF Len(actuals) > Len(fn.args)
                         THEN SubSeq(actuals, Len(fn.args) + 1, Len(actuals))
                         ELSE <<>>
             IN  PutLocal(Alloc(c1, ListCell(rest)), s, fn.restArg, VRef(a))

\* x.k on the container in cell, once the key or index kv is known
AccessCell(c, addr, kv) ==
    LET cell == c.heap[addr]
    IN  CASE cell.k = "object" ->
                IF KeyOfValue(c, kv) \in DOMAIN cell.fields
                THEN Ok(c, cell.fields[KeyOfValue(c, kv)])
                ELSE Ok(c, VNull)
          [] cell.k = "list" ->
                IF kv.t = "int" /\ kv.i \in 0..(Len(cell.elems) - 1)
                THEN Ok(c, cell.elems[kv.i + 1])
                ELSE Ok(c, VNull)
          [] OTHER ->
                IF kv.t = "int" /\ kv.i \in 0..(Len(cell.bytes) - 1)
                THEN Ok(Alloc(c, StringCell(<<cell.bytes[kv.i + 1]>>)),
                        VRef(Len(c.heap) + 1))
                ELSE Ok(c, VNull)

\* the key a node written after a dot or before a colon stands for, when it
\* is known without evaluating: a bare identifier's name, an atom's name,
\* an integer literal
IsLiteralKey(n) ==
    \/ n.type \in {"identifier", "atom", "string"}
    \/ n.type = "number" /\ n.isInteger

LiteralKey(n) ==
    IF n.type = "number" THEN VInt(n.intPayload) ELSE VAtom(n.payload)

RECURSIVE Run(_, _, _)
Run(job, s, c) ==
    CASE job.j = "seq" ->
            \* each node in order; the values, or the first error
            IF job.nodes = <<>> THEN Ok(c, job.acc)
            ELSE LET r == Run(JNode(Head(job.nodes)), s, c)
                 IN  IF r.err # "" THEN r
                     ELSE Run(JSeq(Tail(job.nodes), Append(job.acc, r.v)), s, r.c)
      [] job.j = "key" ->
            IF IsLiteralKey(job.n) THEN Ok(c, LiteralKey(job.n))
            ELSE Run(JNode(job.n), s, c)
      [] job.j = "entries" ->
            IF job.entries = <<>> THEN Ok(c, job.fields)
            ELSE LET k == Run(JKey(Head(job.entries).key), s, c)
                 IN  IF k.err # "" THEN k
                     ELSE LET r == Run(JNode(Head(job.entries).val), s, k.c)
                          IN  IF r.err # "" THEN r
                              ELSE Run(JEntries(Tail(job.entries),
                                                Bind(job.fields,
                                                     KeyOfValue(r.c, k.v), r.v)),
                                       s, r.c)
      [] job.j = "access" ->
            LET l == Run(JNode(job.n.left), s, c)
            IN  IF l.err # "" THEN l
                ELSE IF l.v.t # "ref" THEN Err(l.c, "Runtime error: not a container")
                ELSE LET k == Run(JKey(job.n.right), s, l.c)
                     IN  IF k.err # "" THEN k
                         ELSE AccessCell(k.c, l.v.addr, k.v)
      [] job.j = "assign" ->
            \* := inserts into scope s, <- updates the nearest binding; a
            \* list or object target destructures; _ binds nothing
            CASE job.target.type = "identifier" ->
                    IF job.isLocal
                    THEN Ok(PutLocal(c, s, job.target.payload, job.v), job.v)
                    ELSE Ok(PutNonlocal(c, s, job.target.payload, job.v), job.v)
              [] job.target.type = "empty" -> Ok(c, job.v)
              [] job.target.type = "list" ->
                    Run(JAssignList(job.target.elems, 0, job.isLocal, job.v), s, c)
              [] job.target.type = "object" ->
                    Run(JAssignObject(job.target.entries, 0, job.isLocal, job.v), s, c)
              [] OTHER -> Err(c, "Runtime error: invalid assignment target")
      [] job.j = "assignList" ->
            IF job.i >= Len(job.targets) THEN Ok(c, job.v)
            ELSE LET r == Run(JAssign(job.targets[job.i + 1], job.isLocal,
                                      ElemOrNull(c, job.v, job.i)), s, c)
                 IN  IF r.err # "" THEN r
                     ELSE Run(JAssignList(job.targets, job.i + 1, job.isLocal, job.v),
                              s, r.c)
      [] job.j = "assignObject" ->
            IF job.i >= Len(job.entries) THEN Ok(c, job.v)
            ELSE LET k == Run(JKey(job.entries[job.i + 1].key), s, c)
                 IN  IF k.err # "" THEN k
                     ELSE LET r == Run(JAssign(job.entries[job.i + 1].val, job.isLocal,
                                               FieldOrNull(k.c, job.v,
                                                           KeyOfValue(k.c, k.v))),
                                       s, k.c)
                          IN  IF r.err # "" THEN r
                              ELSE Run(JAssignObject(job.entries, job.i + 1,
                                                     job.isLocal, job.v), s, r.c)
      [] OTHER ->
            LET n == job.n
            IN
            CASE n.type = "null" -> Ok(c, VNull)
              [] n.type = "empty" -> Ok(c, VEmpty)
              [] n.type = "string" ->
                    Ok(Alloc(c, StringCell(n.payload)), VRef(Len(c.heap) + 1))
              [] n.type = "number" ->
                    Ok(c, IF n.isInteger THEN VInt(n.intPayload)
                          ELSE VFloat(n.floatPayload))
              [] n.type = "boolean" -> Ok(c, VBool(n.bool))
              [] n.type = "atom" -> Ok(c, VAtom(n.payload))
              [] n.type = "identifier" ->
                    IF IsBound(c, s, n.payload) THEN Ok(c, Lookup(c, s, n.payload))
                    ELSE Err(c, "Runtime error: unbound identifier")
              [] n.type = "list" ->
                    LET r == Run(JSeq(n.elems, <<>>), s, c)
                    IN  IF r.err # "" THEN r
                        ELSE Ok(Alloc(r.c, ListCell(r.v)), VRef(Len(r.c.heap) + 1))
              [] n.type = "object" ->
                    LET r == Run(JEntries(n.entries, <<>>), s, c)
                    IN  IF r.err # "" THEN r
                        ELSE Ok(Alloc(r.c, ObjectCell(r.v)), VRef(Len(r.c.heap) + 1))
              [] n.type = "fn" ->
                    \* a named fn is also bound under its name where it is defined
                    IF n.name = <<>> THEN Ok(c, VFn(n, s))
                    ELSE Ok(PutLocal(c, s, n.name, VFn(n, s)), VFn(n, s))
              [] n.type = "assignment" ->
                    \* the right side first, then the target
                    LET r == Run(JNode(n.right), s, c)
                    IN  IF r.err # "" THEN r
                        ELSE Run(JAssign(n.left, n.isLocal, r.v), s, r.c)
              [] n.type = "propertyAccess" -> Run(JAccess(n), s, c)
              [] n.type = "unary" ->
                    LET r == Run(JNode(n.right), s, c)
                    IN  IF r.err # "" THEN r
                        ELSE IF n.op = "minus" /\ r.v.t \in {"int", "float"}
                        THEN Ok(r.c, Negate(r.v))
                        ELSE IF n.op = "exclam" /\ r.v.t = "bool"
                        THEN Ok(r.c, VBool(~r.v.b))
                        ELSE Err(r.c, "Runtime error: type error")
              [] n.type = "fnCall" ->
                    \* callee, then arguments left to right; the body runs in a
                    \* child of the scope the function captured
                    LET f == Run(JNode(n.fn), s, c)
                    IN  IF f.err # "" THEN f
                        ELSE LET as == Run(JSeq(n.args, <<>>), s, f.c)
                             IN  IF as.err # "" THEN as
                                 ELSE IF f.v.t # "fn"
                                 THEN Err(as.c, "Runtime error: not a function")
                                 ELSE LET c1 == NewScope(as.c, f.v.scope)
                                          s1 == Len(c1.scopes)
                                      IN  Run(JNode(f.v.node.body), s1,
                                              BindFormals(c1, s1, f.v.node, as.v))
              [] n.type = "block" ->
                    \* a child scope; the last value, null when empty
                    LET c1 == NewScope(c, s)
                        r == Run(JSeq(n.exprs, <<>>), Len(c1.scopes), c1)
                    IN  IF r.err # "" THEN r
                        ELSE IF r.v = <<>> THEN Ok(r.c, VNull)
                        ELSE Ok(r.c, r.v[Len(r.v)])
              [] OTHER -> Err(c, "Runtime error: cannot evaluate")

Eval(n, s, c) == Run(JNode(n), s, c)

\* the forest of one Eval call against the root scope: the last value,
\* null for an empty program
evalNodes(nodes, c) ==
    LET r == Run(JSeq(nodes, <<>>), Root, c)
    IN  IF r.err # "" THEN r
        ELSE IF r.v = <<>> THEN Ok(r.c, VNull)
        ELSE Ok(r.c, r.v[Len(r.v)])

----------------------------------------------------------------------------
(* The lines the REPL is given, as the token sequences Eval hands to the
   parser.  V and W range over Lits.  Every element of a list, block, object
   or argument list and every top-level expression is followed by a comma,
   the only form parse.go's expect(comma) calls accept. *)

Lits == {Num("1"), Num("2")}

X == Ident("x")

Y == Ident("y")

A == Ident("a")

B == Ident("b")

F == Ident("f")

S == Ident("s")

U == Ident("t")

\* x := V
LineAssign(V) == <<X, T("assign"), V, T("comma")>>

\* x := V, { x := W }, x
LineBlockScope(V, W) ==
    <<X, T("assign"), V, T("comma"),
      T("leftBrace"), X, T("assign"), W, T("comma"), T("rightBrace"), T("comma"),
      X, T("comma")>>

\* x := V, fn f x := W, f(), x
LineFnScope(V, W) ==
    <<X, T("assign"), V, T("comma"),
      T("fnKeyword"), F, X, T("assign"), W, T("comma"),
      F, T("leftParen"), T("rightParen"), T("comma"),
      X, T("comma")>>

\* x := V, { x <- W }, x
LineNonlocal(V, W) ==
    <<X, T("assign"), V, T("comma"),
      T("leftBrace"), X, T("nonlocalAssign"), W, T("comma"), T("rightBrace"),
      T("comma"), X, T("comma")>>

\* { y <- W }
LineBlockNonlocalY(W) ==
    <<T("leftBrace"), Y, T("nonlocalAssign"), W, T("comma"), T("rightBrace"),
      T("comma")>>

\* x
LineRead == <<X, T("comma")>>

\* y
LineReadY == <<Y, T("comma")>>

\* f()
LineCall == <<F, T("leftParen"), T("rightParen"), T("comma")>>

\* a := b := V
LineChain(V) == <<A, T("assign"), B, T("assign"), V, T("comma")>>

\* { a <- b <- W }
LineChainNonlocal(W) ==
    <<T("leftBrace"), A, T("nonlocalAssign"), B, T("nonlocalAssign"), W,
      T("comma"), T("rightBrace"), T("comma")>>

\* [1,   -- the input ends inside the list
LineUnclosed == <<T("leftBracket"), Num("1"), T("comma")>>

\* 1)    -- a token of the wrong kind where a comma is expected
LineMismatch == <<Num("1"), T("rightParen")>>

\* 1 + 1
LineBinary == <<Num("1"), T("plus"), Num("1"), T("comma")>>

\* { x := V, { x <- W }, x }
LineNested(V, W) ==
    <<T("leftBrace"), X, T("assign"), V, T("comma"),
      T("leftBrace"), X, T("nonlocalAssign"), W, T("comma"), T("rightBrace"),
      T("comma"), X, T("comma"), T("rightBrace"), T("comma")>>

\* s := { a: V }, t := s
ObjectAndAlias(V) ==
    <<S, T("assign"), T("leftBrace"), A, T("colon"), V, T("comma"),
      T("rightBrace"), T("comma"), U, T("assign"), S, T("comma")>>

\* s := [V], t := s
ListAndAlias(V) ==
    <<S, T("assign"), T("leftBracket"), V, T("comma"), T("rightBracket"),
      T("comma"), U, T("assign"), S, T("comma")>>

\* s.a := W
FieldAssign(W) == <<S, T("dot"), A, T("assign"), W, T("comma")>>

\* s := { a: V }, t := s, s.a := W, t.a
LineSharing(V, W) ==
    ObjectAndAlias(V) \o FieldAssign(W) \o <<U, T("dot"), A, T("comma")>>

\* s := [V], t := s, s.0 := W, t.0
LineSharingIndex(V, W) ==
    ListAndAlias(V) \o <<S, T("dot"), Num("0"), T("assign"), W, T("comma")>>
    \o <<U, T("dot"), Num("0"), T("comma")>>

\* s := [V], t := s, s << W, t.1
LineSharingPush(V, W) ==
    ListAndAlias(V) \o <<S, T("pushArrow"), W, T("comma")>>
    \o <<U, T("dot"), Num("1"), T("comma")>>

\* x := V, [false & { x <- W, true }, x]
LineAnd(V, W) ==
    <<X, T("assign"), V, T("comma"), T("leftBracket"),
      T("falseLiteral"), T("and"), T("leftBrace"), X, T("nonlocalAssign"), W,
      T("comma"), T("trueLiteral"), T("comma"), T("rightBrace"), T("comma"),
      X, T("comma"), T("rightBracket"), T("comma")>>

\* x := V, [true | { x <- W, false }, x]
LineOr(V, W) ==
    <<X, T("assign"), V, T("comma"), T("leftBracket"),
      T("trueLiteral"), T("or"), T("leftBrace"), X, T("nonlocalAssign"), W,
      T("comma"), T("falseLiteral"), T("comma"), T("rightBrace"), T("comma"),
      X, T("comma"), T("rightBracket"), T("comma")>>

\* n := ?, fn f() n <- [n], a := b := f()
LineChainCall ==
    <<Ident("n"), T("assign"), T("qmark"), T("comma"),
      T("fnKeyword"), F, T("leftParen"), T("rightParen"), Ident("n"),
      T("nonlocalAssign"), T("leftBracket"), Ident("n"), T("comma"),
      T("rightBracket"), T("comma"),
      A, T("assign"), B, T("assign"), F, T("leftParen"), T("rightParen"),
      T("comma")>>

\* {}
LineEmptyBraces == <<T("leftBrace"), T("rightBrace"), T("comma")>>

\* { a: V }
LineBraceObject(V) ==
    <<T("leftBrace"), A, T("colon"), V, T("comma"), T("rightBrace"), T("comma")>>

\* { V }
LineBraceBlock(V) == <<T("leftBrace"), V, T("comma"), T("rightBrace"), T("comma")>>

\* fn f {}
LineFnEmpty == <<T("fnKeyword"), F, T("leftBrace"), T("rightBrace"), T("comma")>>

\* fn f { a: :bee }
LineFnObject ==
    <<T("fnKeyword"), F, T("leftBrace"), A, T("colon"), T("colon"),
      Tok("identifier", <<"b", "e", "e">>), T("comma"), T("rightBrace"), T("comma")>>

\* s.(a) := W
ParenFieldAssign(W) ==
    <<S, T("dot"), T("leftParen"), A, T("comma"), T("rightParen"), T("assign"),
      W, T("comma")>>

\* s.0 := W
IndexAssign(W) == <<S, T("dot"), Num("0"), T("assign"), W, T("comma")>>

\* s.a.b := W
DeepFieldAssign(W) == <<S, T("dot"), A, T("dot"), B, T("assign"), W, T("comma")>>

\* if 1 { 1 -> 2 }
LineIf ==
    <<T("ifKeyword"), Num("1"), T("leftBrace"), Num("1"), T("branchArrow"),
      Num("2"), T("comma"), T("rightBrace"), T("comma")>>

\* with f(1) 2
LineWith ==
    <<T("withKeyword"), F, T("leftParen"), Num("1"), T("comma"), T("rightParen"),
      Num("2"), T("comma")>>

\* 1 |> f(2)
LinePipe ==
    <<Num("1"), T("pipeArrow"), F, T("leftParen"), Num("2"), T("comma"),
      T("rightParen"), T("comma")>>

\* v := [V, W], [v, w] := v, v
LineDestructureReassign(V, W) ==
    <<Ident("v"), T("assign"), T("leftBracket"), V, T("comma"), W, T("comma"),
      T("rightBracket"), T("comma"),
      T("leftBracket"), Ident("v"), T("comma"), Ident("w"), T("comma"),
      T("rightBracket"), T("assign"), Ident("v"), T("comma"),
      Ident("v"), T("comma")>>

\* s := [V, W], [a] := s, [_, b, c] := s, [a, b, c]
LineDestructure(V, W) ==
    <<S, T("assign"), T("leftBracket"), V, T("comma"), W, T("comma"),
      T("rightBracket"), T("comma"),
      T("leftBracket"), A, T("comma"), T("rightBracket"), T("assign"), S, T("comma"),
      T("leftBracket"), T("underscore"), T("comma"), B, T("comma"),
      Ident("c"), T("comma"), T("rightBracket"), T("assign"), S, T("comma"),
      T("leftBracket"), A, T("comma"), B, T("comma"), Ident("c"), T("comma"),
      T("rightBracket"), T("comma")>>

\* n := ?, fn f n <- [n], [a, b] := f(), n
LineDestructureCall ==
    <<Ident("n"), T("assign"), T("qmark"), T("comma"),
      T("fnKeyword"), F, Ident("n"), T("nonlocalAssign"),
      T("leftBracket"), Ident("n"), T("comma"), T("rightBracket"), T("comma"),
      T("leftBracket"), A, T("comma"), B, T("comma"), T("rightBracket"),
      T("assign"), F, T("leftParen"), T("rightParen"), T("comma"),
      Ident("n"), T("comma")>>

\* s := {a: V}, {a: b, b: c} := s, [b, c]
LineDestructureObject(V) ==
    <<S, T("assign"), T("leftBrace"), A, T("colon"), V, T("comma"),
      T("rightBrace"), T("comma"),
      T("leftBrace"), A, T("colon"), B, T("comma"), B, T("colon"), Ident("c"),
      T("comma"), T("rightBrace"), T("assign"), S, T("comma"),
      T("leftBracket"), B, T("comma"), Ident("c"), T("comma"), T("rightBracket"),
      T("comma")>>

Lines ==
    {LineAssign(V) : V \in Lits}
    \cup {LineBlockScope(V, W) : V \in Lits, W \in Lits}
    \cup {LineFnScope(V, W) : V \in Lits, W \in Lits}
    \cup {LineNonlocal(V, W) : V \in Lits, W \in Lits}
    \cup {LineNested(V, W) : V \in Lits, W \in Lits}
    \cup {LineBlockNonlocalY(W) : W \in Lits}
    \cup {LineChain(V) : V \in Lits} \cup {LineChainNonlocal(W) : W \in Lits}
    \cup {LineBraceObject(V) : V \in Lits} \cup {LineBraceBlock(V) : V \in Lits}
    \cup {LineSharing(V, W) : V \in Lits, W \in Lits}
    \cup {LineSharingIndex(V, W) : V \in Lits, W \in Lits}
    \cup {LineSharingPush(V, W) : V \in Lits, W \in Lits}
    \cup {LineAnd(V, W) : V \in Lits, W \in Lits}
    \cup {LineOr(V, W) : V \in Lits, W \in Lits}
    \cup {LineDestructureReassign(V, W) : V \in Lits, W \in Lits}
    \cup {LineDestructure(V, W) : V \in Lits, W \in Lits}
    \cup {LineDestructureObject(V) : V \in Lits}
    \cup {LineRead, LineReadY, LineCall, LineUnclosed, LineMismatch, LineBinary,
          LineChainCall, LineEmptyBraces, LineFnEmpty, LineFnObject,
          LineDestructureCall}

----------------------------------------------------------------------------
(* runRepl (src/main.go:47-98) and Context.Eval *)

NoOut == [val |-> VNull, err |-> ""]

\* rl.Readline() returned a line that is not blank: ctx.Eval(line) tokenizes
\* it and calls the parser
ReadLine ==
    /\ repl = "read"
    /\ nlines < MaxLines
    /\ \E line \in Lines :
          /\ tokens' = line
          /\ index' = 0
          /\ stack' = <<Frame("parse", "loop")>>
          /\ ret' = NoRet
          /\ status' = "parsing"
          /\ forest' = <<>>
          /\ perr' = ""
    /\ repl' = "eval"
    /\ nlines' = nlines + 1
    /\ UNCHANGED <<ctx, out>>

\* strings.TrimSpace(line) == "": continue
ReadBlank ==
    /\ repl = "read"
    /\ nlines < MaxLines
    /\ nlines' = nlines + 1
    /\ UNCHANGED <<tokens, index, stack, ret, status, forest, perr, repl, ctx, out>>

\* rl.Readline() failed (io.EOF): break
ReadEOF ==
    /\ repl = "read"
    /\ repl' = "exited"
    /\ UNCHANGED <<tokens, index, stack, ret, status, forest, perr, ctx, out, nlines>>

\* what Eval returns once parse() has returned: the parse error, or the
\* result of evaluating the forest against the root scope
evalResult == IF status = "error" THEN Err(ctx, perr) ELSE evalNodes(forest, ctx)

\* Eval returns to the loop: print the error and continue, or print the
\* value and keep it as __
EvalReturns ==
    /\ repl = "eval"
    /\ status \in {"ok", "error"}
    /\ LET r == evalResult
       IN  /\ out' = [val |-> r.v, err |-> r.err]
           /\ ctx' = IF r.err # "" THEN r.c ELSE PutLocal(r.c, Root, <<"_", "_">>, r.v)
    /\ repl' = "read"
    /\ status' = "idle"
    /\ UNCHANGED <<tokens, index, stack, ret, forest, perr, nlines>>

Init ==
    /\ tokens = <<>>
    /\ index = 0
    /\ stack = <<>>
    /\ ret = NoRet
    /\ status = "idle"
    /\ forest = <<>>
    /\ perr = ""
    /\ repl = "read"
    /\ ctx = NewContext
    /\ out = NoOut
    /\ nlines = 0

Next ==
    \/ ReadLine
    \/ ReadBlank
    \/ ReadEOF
    \/ ParseStep
    \/ NextNodeStep
    \/ ParseAtomStep
    \/ ParseMaybeAssignmentStep
    \/ EvalReturns

Spec == Init /\ [][Next]_vars

----------------------------------------------------------------------------
(* The parser alone, on every token sequence up to MaxLen over an alphabet
   with one token of each kind the parser tells apart *)

Alphabet ==
    {T("comma"), T("dot"), T("colon"), T("qmark"), Num("1"), Ident("x"),
     T("leftParen"), T("rightParen"), T("leftBracket"), T("rightBracket"),
     T("leftBrace"), T("rightBrace"), T("assign"), T("nonlocalAssign"),
     T("fnKeyword"), T("ifKeyword"), T("withKeyword"), T("minus"), T("plus"),
     T("pipeArrow"), T("pushArrow"), T("and"), T("ellipsis")}

\* with f() 2
LineWithNoArgs ==
    <<T("withKeyword"), F, T("leftParen"), T("rightParen"), Num("2"), T("comma")>>

\* 1 |> f(2) |> f(1)
LinePipeChain ==
    <<Num("1"), T("pipeArrow"), F, T("leftParen"), Num("2"), T("comma"),
      T("rightParen"), T("pipeArrow"), F, T("leftParen"), Num("1"), T("comma"),
      T("rightParen"), T("comma")>>

\* 2 * 3 + 1
LineMulAdd ==
    <<Num("2"), T("times"), Num("3"), T("plus"), Num("1"), T("comma")>>

\* 1 + 2 * 3
LineAddMul ==
    <<Num("1"), T("plus"), Num("2"), T("times"), Num("3"), T("comma")>>

\* a << 1 << 2
LinePushChain ==
    <<A, T("pushArrow"), Num("1"), T("pushArrow"), Num("2"), T("comma")>>

\* a := [2] << 1 + 3
LinePushAdd ==
    <<A, T("assign"), T("leftBracket"), Num("2"), T("comma"), T("rightBracket"),
      T("pushArrow"), Num("1"), T("plus"), Num("3"), T("comma")>>

\* longer inputs that only the parser is given
ParseOnly ==
    {LineIf, LineWith, LinePipe, LineMulAdd, LineAddMul, LinePushChain, LinePushAdd,
     LineWithNoArgs, LinePipeChain}
    \cup {FieldAssign(W) : W \in Lits} \cup {ParenFieldAssign(W) : W \in Lits}
    \cup {IndexAssign(W) : W \in Lits} \cup {DeepFieldAssign(W) : W \in Lits}

TokenSeqs == UNION {[1..n -> Alphabet] : n \in 0..MaxLen}

ParseInit ==
    /\ \E toks \in TokenSeqs \cup Lines \cup ParseOnly : StartParser(toks)
    /\ repl = "off"
    /\ ctx = NewContext
    /\ out = NoOut
    /\ nlines = 0

ParseSpec == ParseInit /\ [][ParserNext]_vars

----------------------------------------------------------------------------
(* Observations used by the properties *)

RootVars == ctx.scopes[Root].vars

\* the root scope binds name n to v
RootHas(n, v) == n \in DOMAIN RootVars /\ RootVars[n] = v

LastScope == ctx.scopes[Len(ctx.scopes)]

\* the value and the node a literal token stands for
LitValue(tok) == VInt(ParseDigits(tok.payload, 0))

LitNode(tok) == numberOf(tok.payload)

\* Eval has returned to the REPL loop for the line in tokens
Evaluated(line) == repl = "read" /\ nlines > 0 /\ tokens = line

\* parse() has returned the forest of the line in tokens
Parsed(line) == tokens = line /\ status \in {"ok", "idle"} /\ nlines > 0

Returned(v) == out = [val |-> v, err |-> ""]

\* the postfix loop of nextNode is at a token whose case consumes nothing
\* and does not return: the next iteration finds the same state
Spinning ==
    /\ Running("nextNode")
    /\ Top.pc = "loop"
    /\ nextNodeLoop(Top) = Goto(Top, 0)

HasList(v, elems) == v.t = "ref" /\ ctx.heap[v.addr] = ListCell(elems)

HasObject(v, fields) == v.t = "ref" /\ ctx.heap[v.addr] = ObjectCell(fields)

----------------------------------------------------------------------------
(* Properties *)

\* C1: when expect(kind) reads a token of another kind, parse() returns a
\* parse error to its caller and stops there; the parser does not panic.
C1_MismatchIsParseError == perr = "expected token" => status = "error"

\* C2: an Eval call that fails leaves the Context usable: the process does
\* not die in the call, the REPL goes back to reading, and every binding of
\* the root scope reads back as before.
C2_ErrorKeepsContext ==
    [][repl = "eval" =>
          /\ status' # "panic"
          /\ (repl' = "read" /\ out'.err # "" =>
                \A n \in DOMAIN RootVars :
                    n \in DOMAIN RootVars' /\ RootVars'[n] = RootVars[n])]_vars

\* C3: scope hygiene.  After x := V, a local assignment x := W inside a
\* block or inside a called function's body binds x in the child scope of
\* that block or call, and x in the enclosing scope still reads V.
C3_ScopeHygiene ==
    \A V \in Lits, W \in Lits :
        Evaluated(LineBlockScope(V, W)) \/ Evaluated(LineFnScope(V, W)) =>
            /\ Returned(LitValue(V))
            /\ RootHas(<<"x">>, LitValue(V))
            /\ LastScope = [vars |-> (<<"x">> :> LitValue(W)), parent |-> Root]

C3_Witness ==
    /\ nlines = 2
    /\ Evaluated(LineFnScope(Num("1"), Num("2")))
    /\ RootHas(<<"x">>, VInt(1))
    /\ LastScope.vars[<<"x">>] = VInt(2)

\* C4: nonlocal assignment x <- W updates the nearest scope on the parent
\* chain that binds x and binds nothing in the current scope; with no
\* binding on the chain it inserts into the root scope; a <- b <- W updates
\* both.
C4_NonlocalAssignment ==
    \A W \in Lits :
        /\ \A V \in Lits :
              /\ Evaluated(LineNonlocal(V, W)) =>
                    /\ Returned(LitValue(W))
                    /\ RootHas(<<"x">>, LitValue(W))
                    /\ LastScope = [vars |-> <<>>, parent |-> Root]
              /\ Evaluated(LineNested(V, W)) =>
                    \* the inner block updates the outer block's x
                    /\ Returned(LitValue(W))
                    /\ LastScope = [vars |-> <<>>, parent |-> Len(ctx.scopes) - 1]
                    /\ ctx.scopes[Len(ctx.scopes) - 1] =
                           [vars |-> (<<"x">> :> LitValue(W)), parent |-> Root]
                    /\ (nlines = 1 => <<"x">> \notin DOMAIN RootVars)
        /\ Evaluated(LineBlockNonlocalY(W)) =>
              /\ RootHas(<<"y">>, LitValue(W))
              /\ LastScope = [vars |-> <<>>, parent |-> Root]
        /\ Evaluated(LineChainNonlocal(W)) =>
              /\ RootHas(<<"a">>, LitValue(W))
              /\ RootHas(<<"b">>, LitValue(W))
              /\ LastScope = [vars |-> <<>>, parent |-> Root]

C4_Witness ==
    /\ nlines = 2
    /\ Evaluated(LineChainNonlocal(Num("2")))
    /\ RootHas(<<"a">>, VInt(2))
    /\ RootHas(<<"b">>, VInt(2))
    /\ RootHas(<<"x">>, VInt(1))

\* C5: sharing.  After t := s, a mutation made through s -- s.a := W,
\* s.0 := W, s << W -- is read back through t.
C5_Sharing ==
    \A V \in Lits, W \in Lits :
        tokens \in {LineSharing(V, W), LineSharingIndex(V, W), LineSharingPush(V, W)}
        /\ nlines > 0 =>
            /\ ~Spinning
            /\ (repl = "read" => Returned(LitValue(W)))

\* C6: short-circuit.  false & E and true | E yield the left operand and E
\* is not evaluated: x still reads V afterwards.
C6_ShortCircuit ==
    \A V \in Lits, W \in Lits :
        tokens \in {LineAnd(V, W), LineOr(V, W)} /\ nlines > 0 =>
            /\ ~Spinning
            /\ (repl = "read" =>
                  /\ out.err = ""
                  /\ HasList(out.val, <<VBool(tokens[6].kind = "trueLiteral"),
                                        LitValue(V)>>))

\* C7: an if expression is parsed into an ifExprNode: when parseAtom has
\* read the if keyword and returns a node, the node is an ifExprNode.
C7_IfIsIfExpr ==
    ret.fn = "parseAtom" /\ ret.err = "" /\ At(ret.start).kind = "ifKeyword" =>
        ret.node.type = "ifExpr"

\* C8: assignment is right-associative and yields the assigned value:
\* a := b := E parses to the assignment of (b := E) to a, E is evaluated
\* once, and afterwards a and b are both bound to its value.
C8_ChainedAssignment ==
    /\ \A V \in Lits :
          /\ Parsed(LineChain(V)) =>
                forest = <<assignmentNode(TRUE, identifierNode(<<"a">>),
                              assignmentNode(TRUE, identifierNode(<<"b">>),
                                             LitNode(V)))>>
          /\ Evaluated(LineChain(V)) =>
                /\ Returned(LitValue(V))
                /\ RootHas(<<"a">>, LitValue(V))
                /\ RootHas(<<"b">>, LitValue(V))
          /\ Parsed(LineChainNonlocal(V)) =>
                forest = <<blockNode(<<
                              assignmentNode(FALSE, identifierNode(<<"a">>),
                                  assignmentNode(FALSE, identifierNode(<<"b">>),
                                                 LitNode(V)))>>)>>
    /\ Parsed(LineChainCall) =>
          forest[3] = assignmentNode(TRUE, identifierNode(<<"a">>),
                          assignmentNode(TRUE, identifierNode(<<"b">>),
                              fnCallNode(identifierNode(<<"f">>), <<>>)))
    /\ Evaluated(LineChainCall) =>
          \* f() wraps n in a list once more each time it runs
          /\ out.err = ""
          /\ HasList(out.val, <<VNull>>)
          /\ RootHas(<<"a">>, out.val)
          /\ RootHas(<<"b">>, out.val)
          /\ RootHas(<<"n">>, out.val)

C8_Witness ==
    /\ Evaluated(LineChainCall)
    /\ HasList(RootVars[<<"a">>], <<VNull>>)
    /\ RootHas(<<"b">>, RootVars[<<"a">>])

\* C9: c.k := v (also c.(e) := v, c.2 := v, c.a.b := v) is parsed as the
\* assignment of v to the whole property access, not as a property access
\* whose right operand is the assignment k := v.
C9_AssignToPropertyAccess ==
    \A W \in Lits :
        /\ tokens \in {ParenFieldAssign(W), IndexAssign(W)} => ~Spinning
        /\ tokens = FieldAssign(W) /\ status = "ok" =>
              forest = <<assignmentNode(TRUE,
                            propertyAccessNode(identifierNode(<<"s">>),
                                               identifierNode(<<"a">>)),
                            LitNode(W))>>
        /\ tokens = DeepFieldAssign(W) /\ status = "ok" =>
              forest = <<assignmentNode(TRUE,
                            propertyAccessNode(
                                propertyAccessNode(identifierNode(<<"s">>),
                                                   identifierNode(<<"a">>)),
                                identifierNode(<<"b">>)),
                            LitNode(W))>>

ObjectPcs == {"objFirstVal", "objLoop", "objAfterKey", "objAfterVal"}

BlockPcs == {"blockLoop", "blockAfterExpr"}

FnF(body) == fnNode(<<"f">>, <<>>, <<>>, body)

BeeObject ==
    objectNode(<<objectEntryNode(identifierNode(<<"a">>),
                                 atomNode(<<"b", "e", "e">>))>>)

\* the forests and values of the brace literals
BraceResults ==
    /\ \A V \in Lits :
          /\ tokens \in {LineBraceObject(V), LineBraceBlock(V)} /\ nlines > 0 =>
                status \notin {"panic", "error"} /\ ~Spinning
          /\ Parsed(LineBraceObject(V)) =>
                forest = <<objectNode(<<objectEntryNode(identifierNode(<<"a">>),
                                                        LitNode(V))>>)>>
          /\ Evaluated(LineBraceObject(V)) =>
                out.err = "" /\ HasObject(out.val, <<"a">> :> LitValue(V))
          /\ Parsed(LineBraceBlock(V)) => forest = <<blockNode(<<LitNode(V)>>)>>
          /\ Evaluated(LineBraceBlock(V)) => Returned(LitValue(V))
    /\ Parsed(LineEmptyBraces) => forest = <<objectNode(<<>>)>>
    /\ Evaluated(LineEmptyBraces) => out.err = "" /\ HasObject(out.val, <<>>)
    /\ Parsed(LineFnEmpty) => forest = <<FnF(blockNode(<<>>))>>
    /\ Parsed(LineFnObject) => forest = <<FnF(BeeObject)>>
    /\ Evaluated(LineCall) /\ out.err = "" =>
          /\ RootVars[<<"f">>].node = FnF(blockNode(<<>>)) => out.val = VNull
          /\ RootVars[<<"f">>].node = FnF(BeeObject) =>
                HasObject(out.val, <<"a">> :> VAtom(<<"b", "e", "e">>))

\* the step after the first inner expression of { ... }: the token that
\* follows it decides, a colon for an object and anything else for a block
BraceDecides ==
    Running("parseAtom") /\ Top.pc = "braceFirst" /\ ~Failed /\ ~isEOF =>
        IF peekKind = "colon"
        THEN /\ status' = "parsing"
             /\ stack'[Len(stack)].pc = "objFirstVal"
             /\ stack'[Len(stack)].key = ret.node
        ELSE \/ status' = "panic"
             \/ /\ stack'[Len(stack)].pc = "blockLoop"
                /\ stack'[Len(stack)].items = <<ret.node>>

\* a literal that is being parsed as an object (a block) goes on as one, and
\* when it is complete it is an objectNode (a blockNode)
BraceCommits ==
    /\ Running("parseAtom") /\ Top.pc \in ObjectPcs /\ status' = "parsing" =>
          IF Len(stack') >= Len(stack)
          THEN LET f == stack'[Len(stack)]
               IN  \/ f.fn = "parseAtom" /\ f.pc \in ObjectPcs
                   \/ f.fn = "parseMaybeAssignment" /\ f.node.type = "object"
          ELSE ret'.err # ""
    /\ Running("parseAtom") /\ Top.pc \in BlockPcs /\ status' = "parsing" =>
          IF Len(stack') >= Len(stack)
          THEN stack'[Len(stack)].fn = "parseAtom" /\ stack'[Len(stack)].pc \in BlockPcs
          ELSE ret'.err # "" \/ ret'.node.type = "block"

\* C10: {} is the empty object; a non-empty { ... } is an object when a colon
\* follows its first inner expression and a block otherwise, and the choice
\* is not changed afterwards; fn {} has an empty block as its body, so
\* calling it yields null, while fn f { a: :bee } yields an object.
C10_BraceDisambiguation ==
    []BraceResults /\ [][BraceDecides /\ BraceCommits]_vars

C10_Witness ==
    /\ nlines = 2
    /\ Evaluated(LineCall)
    /\ out.err = ""
    /\ RootVars[<<"f">>].node = FnF(BeeObject)
    /\ HasObject(out.val, <<"a">> :> VAtom(<<"b", "e", "e">>))

\* C11: binary operators are parsed into binaryNode trees that follow the
\* precedence table: * groups before + in either order, operators of one
\* level group left to right, and << binds tighter than := and looser
\* than +.
C11_BinaryPrecedence ==
    /\ tokens \in {LineMulAdd, LineAddMul, LinePushChain, LinePushAdd} => ~Spinning
    /\ tokens = LineMulAdd /\ status = "ok" =>
          forest = <<binaryNode("plus",
                         binaryNode("times", LitNode(Num("2")), LitNode(Num("3"))),
                         LitNode(Num("1")))>>
    /\ tokens = LineAddMul /\ status = "ok" =>
          forest = <<binaryNode("plus", LitNode(Num("1")),
                         binaryNode("times", LitNode(Num("2")), LitNode(Num("3"))))>>
    /\ tokens = LinePushChain /\ status = "ok" =>
          forest = <<binaryNode("pushArrow",
                         binaryNode("pushArrow", identifierNode(<<"a">>),
                                    LitNode(Num("1"))),
                         LitNode(Num("2")))>>
    /\ tokens = LinePushAdd /\ status = "ok" =>
          forest = <<assignmentNode(TRUE, identifierNode(<<"a">>),
                         binaryNode("pushArrow", listNode(<<LitNode(Num("2"))>>),
                             binaryNode("plus", LitNode(Num("1")),
                                        LitNode(Num("3")))))>>

CallF(args) == fnCallNode(identifierNode(<<"f">>), args)

\* C12: `with callee(a1, ..., an) trailing` is parsed into the one call
\* callee(a1, ..., an, trailing): the atom that starts at the with keyword
\* is a fnCallNode whose last argument is the trailing expression.
C12_WithIsCall ==
    /\ ret.fn = "parseAtom" /\ ret.err = "" /\ At(ret.start).kind = "withKeyword" =>
          ret.node.type = "fnCall"
    /\ tokens \in {LineWith, LineWithNoArgs} => ~Spinning
    /\ tokens = LineWith /\ status = "ok" =>
          forest = <<CallF(<<LitNode(Num("1")), LitNode(Num("2"))>>)>>
    /\ tokens = LineWithNoArgs /\ status = "ok" =>
          forest = <<CallF(<<LitNode(Num("2"))>>)>>

\* C13: `x |> f(a1, ..., an)` is parsed into the call f(x, a1, ..., an), and
\* pipes group left to right: x |> f(a) |> g(b) is g(f(x, a), b).
C13_PipeIsCall ==
    /\ tokens \in {LinePipe, LinePipeChain} => ~Spinning
    /\ tokens = LinePipe /\ status = "ok" =>
          forest = <<CallF(<<LitNode(Num("1")), LitNode(Num("2"))>>)>>
    /\ tokens = LinePipeChain /\ status = "ok" =>
          forest = <<CallF(<<CallF(<<LitNode(Num("1")), LitNode(Num("2"))>>),
                             LitNode(Num("1"))>>)>>

DestructuringLines ==
    {LineDestructureReassign(V, W) : V \in Lits, W \in Lits}
    \cup {LineDestructure(V, W) : V \in Lits, W \in Lits}
    \cup {LineDestructureObject(V) : V \in Lits}
    \cup {LineDestructureCall}

\* C14: a destructuring assignment evaluates its right side once and before
\* any target is rebound, gives position i (or the value at each key) to the
\* i-th target, null where the source has no such position or key, and
\* binds nothing for a _ target; so [v, w] := v binds v to the first element
\* of the list v held.
C14_Destructuring ==
    /\ tokens \in DestructuringLines /\ nlines > 0 =>
          status \notin {"panic", "error"} /\ ~Spinning
    /\ \A V \in Lits :
          /\ \A W \in Lits :
                /\ Evaluated(LineDestructureReassign(V, W)) =>
                      /\ Returned(LitValue(V))
                      /\ RootHas(<<"w">>, LitValue(W))
                /\ Evaluated(LineDestructure(V, W)) =>
                      /\ out.err = ""
                      /\ HasList(out.val, <<LitValue(V), LitValue(W), VNull>>)
                      /\ <<"_">> \notin DOMAIN RootVars
          /\ Evaluated(LineDestructureObject(V)) =>
                /\ out.err = ""
                /\ HasList(out.val, <<LitValue(V), VNull>>)
    /\ Evaluated(LineDestructureCall) =>
          \* f() wraps n in a list once more each time it runs
          /\ out.err = ""
          /\ HasList(out.val, <<VNull>>)
          /\ RootHas(<<"a">>, VNull)
          /\ RootHas(<<"b">>, VNull)

C14_Witness ==
    /\ nlines = 2
    /\ Evaluated(LineDestructure(Num("1"), Num("2")))
    /\ RootHas(<<"a">>, VInt(1))
    /\ RootHas(<<"b">>, VInt(2))
    /\ RootHas(<<"c">>, VNull)

\* the last top-level expression has been parsed and the input ends there
LastExpressionAtEnd == Running("parse") /\ Top.pc = "afterNode" /\ ~Failed /\ isEOF

\* an identifier, list or object has been parsed and the input ends there
TargetAtEnd == Running("parseMaybeAssignment") /\ Top.pc = "start" /\ isEOF

\* C15: the parser tolerates a token stream that ends without a trailing
\* comma: when the last top-level expression is followed directly by the
\* end of input, parse() returns the complete forest with that expression
\* and no error; the empty stream gives the empty forest, which evaluates
\* to null.
C15_NoTrailingComma ==
    /\ [](tokens = <<>> /\ status # "parsing" /\ repl = "off" =>
              /\ status = "ok"
              /\ forest = <<>>
              /\ evalNodes(forest, ctx) = Ok(ctx, VNull))
    /\ [][/\ TargetAtEnd => status' = "parsing" /\ ret'.node = Top.node
          /\ LastExpressionAtEnd =>
                /\ status' = "ok"
                /\ perr' = ""
                /\ forest' = Append(Top.items, ret.node)]_vars

\* C16: parse() terminates: every iteration of the postfix loop of nextNode
\* consumes at least one token or returns, whatever token follows the atom.
C16_PostfixLoopAdvances ==
    Running("nextNode") /\ Top.pc = "loop" =>
        nextNodeLoop(Top).op = "return" \/ nextNodeLoop(Top).adv > 0

\* C17: 0 <= index <= len(tokens) in every state, and peek, peekAhead and
\* next never read the token slice at or past its end.
C17_IndexInBounds ==
    /\ index >= 0
    /\ index <= Len(tokens)
    /\ perr # "index out of range"

====
